---- MODULE Spec2Model ----
(***************************************************************************)
(* Model of wrap_as_wav (src/src/main.rs), the RIFF/WAVE container encoder *)
(* of midi-renderer.                                                       *)
(*                                                                         *)
(* Representation.                                                         *)
(*  - A u32 is a record [lo, hi] of two 16-bit limbs (value hi*2^16 + lo), *)
(*    so that the full 32-bit range and its overflow are modelled exactly. *)
(*  - An f32 amplitude is the integer numerator m of the dyadic rational   *)
(*    m / Den.  Every such value is exactly representable as f32, and with *)
(*    the scale factors of the code every product is exact in f64, so the  *)
(*    float arithmetic of the code is exact rational arithmetic here.      *)
(*  - `debug` is the build profile: debug_assert! and arithmetic overflow  *)
(*    checks are active in a debug build and absent in a release build.    *)
(***************************************************************************)
EXTENDS Integers, Sequences, FiniteSets, TLC

\* ---------------------------------------------------------------- bounds
MaxLen == 2
FracBits == 9
MaxAmp == 2

Den == 2 ^ FracBits

\* ------------------------------------------------------ integer helpers
Limb == 2 ^ 16

U32(n) == [lo |-> n % Limb, hi |-> (n \div Limb) % Limb]

\* u32 * small factor: wrapped value and whether the true product overflowed
U32Mul(a, k) ==
    LET plo == a.lo * k
        phi == a.hi * k + (plo \div Limb)
    IN  [v |-> [lo |-> plo % Limb, hi |-> phi % Limb], ovf |-> phi >= Limb]

U32Add(a, k) ==
    LET plo == a.lo + k
        phi == a.hi + (plo \div Limb)
    IN  [v |-> [lo |-> plo % Limb, hi |-> phi % Limb], ovf |-> phi >= Limb]

U16LeBytes(n) == << n % 256, (n \div 256) % 256 >>

U32LeBytes(a) == U16LeBytes(a.lo) \o U16LeBytes(a.hi)

\* two's complement little-endian bytes of a signed 16-bit / 32-bit value
I16LeBytes(v) == U16LeBytes(v % Limb)

I32LeBytes(v) == U16LeBytes(v % Limb) \o U16LeBytes((v \div Limb) % Limb)

\* division truncating toward zero (the direction of a float-to-int cast)
TruncDiv(a, b) == IF a >= 0 THEN a \div b ELSE -((-a) \div b)

Clamp(v, lo, hi) == IF v < lo THEN lo ELSE IF v > hi THEN hi ELSE v

I16Min == -(2 ^ 15)
I16Max == 2 ^ 15 - 1
I32Max == (2 ^ 30 - 1) * 2 + 1
I32Min == -I32Max - 1

\* ((m / Den) * S) as <int type with range lo..hi>: exact product,
\* truncated toward zero, saturated at the bounds of the target type.
\* m*S/Den is evaluated as m*(S div Den) + m*(S mod Den)/Den; products that
\* lie beyond the target range are saturated without being formed.
F64MulAsInt(m, S, lo, hi) ==
    LET q == S \div Den
        r == S % Den
    IN  IF m > Den /\ hi <= S THEN hi
        ELSE IF m < -Den /\ lo >= -S - 1 /\ q >= 1 THEN lo
        ELSE Clamp(m * q + TruncDiv(m * r, Den), lo, hi)

\* ------------------------------------------------------------ quantizers
\* variants of the 8-bit arm: a wrapping cast, and a scale of 255
Quantize8Wrap(m) == TruncDiv((m + Den) * 128, Den) % 256

Quantize8Scale255(m) == Clamp(TruncDiv((m + Den) * 255, 2 * Den), 0, 255)

\* 8-bit: (((x + 1.) / 2.) * 256.) as u8, x = m / Den
Quantize8(m) == Clamp(TruncDiv((m + Den) * 128, Den), 0, 255)

\* variant of the 16-bit arm: a scale of 32768
Quantize16Scale32768(m) == F64MulAsInt(m, 32768, I16Min, I16Max)

\* 16-bit: (x * 32_767.) as i16
Quantize16(m) == F64MulAsInt(m, 32767, I16Min, I16Max)

\* 24-bit: (x * 8_388_607.) as i32
Quantize24(m) == F64MulAsInt(m, 8388607, I32Min, I32Max)

\* 32-bit: (x * 2_147_483_647.) as i32
Quantize32(m) == F64MulAsInt(m, 2147483647, I32Min, I32Max)

\* variants of `convert`: the sign bit dropped, and the top byte kept
Convert24NoSign(num) ==
    LET bytes == I32LeBytes(num)
    IN  << bytes[1], bytes[2], bytes[3] % 128 >>

Convert24Full(num) == I32LeBytes(num)

\* the `convert` closure of the 24-bit arm
Convert24(num) ==
    LET bytes == I32LeBytes(num)
        fixed_byte_2 == (bytes[3] % 128) + (bytes[4] \div 128) * 128
    IN  << bytes[1], bytes[2], fixed_byte_2 >>

ValidDepths == {8, 16, 24, 32}

\* bytes emitted for one channel at a valid bit depth
EncodeChannel(depth, m) ==
    CASE depth = 8  -> << Quantize8(m) >>
      [] depth = 16 -> I16LeBytes(Quantize16(m))
      [] depth = 24 -> Convert24(Quantize24(m))
      [] depth = 32 -> I32LeBytes(Quantize32(m))

\* variant of the pair encoding: right channel first
EncodeFrameSwapped(depth, fr) == EncodeChannel(depth, fr[2]) \o EncodeChannel(depth, fr[1])

\* bytes emitted for one (l, r) pair: left channel, then right channel
EncodeFrame(depth, fr) == EncodeChannel(depth, fr[1]) \o EncodeChannel(depth, fr[2])

\* ------------------------------------------------------------ constants
RIFF == << 82, 73, 70, 70 >>
WAVE == << 87, 65, 86, 69 >>
FMT  == << 102, 109, 116, 32 >>
DATA == << 100, 97, 116, 97 >>

\* ----------------------------------------------------------- input sets
Amp(k, d) == (k * Den) \div d

\* hand-picked stereo pairs: silence, full scale, near full scale, fractions
\* and amplitudes outside the nominal range
Frames == { << 0, 0 >>, << Den, -Den >>, << -Den, Den >>,
            << Den - 1, 1 - Den >>, << 1, -1 >>,
            << Amp(3, 2), -Amp(5, 4) >> }

\* every amplitude of the grid, paired with its successor
GridFrames == { << m, m + 1 >> : m \in (-MaxAmp * Den) .. (MaxAmp * Den - 1) }

RECURSIVE SeqsUpTo(_, _)
SeqsUpTo(S, n) ==
    IF n = 0 THEN { << >> }
    ELSE LET shorter == SeqsUpTo(S, n - 1)
         IN  shorter \cup { Append(s, x) : s \in { t \in shorter : Len(t) = n - 1 }, x \in S }

Rates == { U32(0), U32(44100), U32(48000),
           [lo |-> 0, hi |-> 8192],        \* 2^29
           [lo |-> 0, hi |-> 32768],       \* 2^31
           [lo |-> 65535, hi |-> 65535] }  \* 2^32 - 1

Depths == ValidDepths \cup {0, 12, 40}

\* ---------------------------------------------------------------- state
VARIABLES debug, input, sample_rate, bit_depth,
          pc, byte_depth, clone, samples, counted,
          sample_count, expected_data_length, out

vars == << debug, input, sample_rate, bit_depth,
           pc, byte_depth, clone, samples, counted,
           sample_count, expected_data_length, out >>

args == << debug, input, sample_rate, bit_depth >>

Init ==
    /\ debug \in BOOLEAN
    /\ bit_depth \in Depths
    /\ \/ input \in SeqsUpTo(Frames, MaxLen) /\ sample_rate \in Rates
       \/ input \in { << fr >> : fr \in GridFrames } /\ sample_rate = U32(48000)
    /\ pc = "start"
    /\ byte_depth = 0
    /\ clone = << >>
    /\ samples = input
    /\ counted = 0
    /\ sample_count = U32(0)
    /\ expected_data_length = U32(0)
    /\ out = << >>

\* line 92: debug_assert_eq!(bit_depth % 8, 0)
AssertDepthFail ==
    /\ pc = "start"
    /\ debug /\ bit_depth % 8 # 0
    /\ pc' = "panicked"
    /\ UNCHANGED << args, byte_depth, clone, samples, counted,
                    sample_count, expected_data_length, out >>

\* lines 92-97: byte_depth, the empty buffer, and the clone that is counted
Begin ==
    /\ pc = "start"
    /\ ~(debug /\ bit_depth % 8 # 0)
    /\ byte_depth' = bit_depth \div 8
    /\ out' = << >>
    /\ clone' = samples
    /\ counted' = 0
    /\ pc' = "count"
    /\ UNCHANGED << args, samples, sample_count, expected_data_length >>

\* line 97: one step of samples.clone().count()
CountStep ==
    /\ pc = "count"
    /\ clone # << >>
    /\ clone' = Tail(clone)
    /\ counted' = counted + 1
    /\ UNCHANGED << args, pc, byte_depth, samples, sample_count,
                    expected_data_length, out >>

\* lines 97-98: the count as u32 and expected_data_length
DataLength(n, bd) ==
    LET twice == U32Mul(U32(n), 2)
        total == U32Mul(twice.v, bd)
    IN  [v |-> total.v, ovf |-> twice.ovf \/ total.ovf]

CountDone ==
    /\ pc = "count"
    /\ clone = << >>
    /\ LET len == DataLength(counted, byte_depth)
       IN  IF debug /\ len.ovf
           THEN /\ pc' = "panicked"
                /\ UNCHANGED << sample_count, expected_data_length >>
           ELSE /\ sample_count' = U32(counted)
                /\ expected_data_length' = len.v
                /\ pc' = "riff"
    /\ UNCHANGED << args, byte_depth, clone, samples, counted, out >>

\* variant of ChunkSize: the whole file size
ChunkSizeWhole(len) == U32Add(len, 44)

\* line 102: 36 + expected_data_length
ChunkSize(len) == U32Add(len, 36)

\* lines 100-104: the RIFF header
RiffHeader ==
    /\ pc = "riff"
    /\ LET size == ChunkSize(expected_data_length)
           next == out \o RIFF \o U32LeBytes(size.v) \o WAVE
       IN  IF debug /\ size.ovf
           THEN pc' = "panicked" /\ out' = out \o RIFF
           ELSE /\ out' = next
                /\ pc' = IF debug /\ Len(next) # 12 THEN "panicked" ELSE "fmt"
    /\ UNCHANGED << args, byte_depth, clone, samples, counted,
                    sample_count, expected_data_length >>

\* variant of ByteRate: the channel count left out
ByteRateMono(rate, bd) == U32Mul(rate, bd)

\* line 112: sample_rate * 2 * byte_depth as u32
ByteRate(rate, bd) ==
    LET twice == U32Mul(rate, 2)
        total == U32Mul(twice.v, bd)
    IN  [v |-> total.v, ovf |-> twice.ovf \/ total.ovf]

\* line 113: 2u16 * byte_depth
BlockAlign(bd) == [v |-> (2 * bd) % Limb, ovf |-> 2 * bd >= Limb]

\* variant of FmtPrefix: one channel
FmtPrefixMono(rate) ==
    FMT \o U32LeBytes(U32(16)) \o U16LeBytes(1) \o U16LeBytes(1) \o U32LeBytes(rate)

\* lines 107-111: the part of subchunk 1 written before the byte rate
FmtPrefix(rate) ==
    FMT \o U32LeBytes(U32(16)) \o U16LeBytes(1) \o U16LeBytes(2) \o U32LeBytes(rate)

\* lines 106-116: subchunk 1, 'fmt '
FmtChunk ==
    /\ pc = "fmt"
    /\ LET rate  == ByteRate(sample_rate, byte_depth)
           align == BlockAlign(byte_depth)
           next  == out \o FmtPrefix(sample_rate) \o U32LeBytes(rate.v)
                        \o U16LeBytes(align.v) \o U16LeBytes(bit_depth)
       IN  /\ ~(debug /\ (rate.ovf \/ align.ovf))
           /\ out' = next
           /\ pc' = IF debug /\ Len(next) # 36 THEN "panicked" ELSE "data"
    /\ UNCHANGED << args, byte_depth, clone, samples, counted,
                    sample_count, expected_data_length >>

\* lines 112-113 in a build with overflow checks: the multiplication panics
FmtOverflow ==
    /\ pc = "fmt"
    /\ LET rate  == ByteRate(sample_rate, byte_depth)
           align == BlockAlign(byte_depth)
       IN  /\ debug /\ (rate.ovf \/ align.ovf)
           /\ out' = out \o FmtPrefix(sample_rate)
                         \o (IF rate.ovf THEN << >> ELSE U32LeBytes(rate.v))
    /\ pc' = "panicked"
    /\ UNCHANGED << args, byte_depth, clone, samples, counted,
                    sample_count, expected_data_length >>

\* lines 118-120: the head of subchunk 2, 'data'
DataHeader ==
    /\ pc = "data"
    /\ out' = out \o DATA \o U32LeBytes(expected_data_length)
    /\ pc' = "loop"
    /\ UNCHANGED << args, byte_depth, clone, samples, counted,
                    sample_count, expected_data_length >>

\* lines 121-147: one iteration of `for (l, r) in samples` at a matched depth
EncodeStep ==
    /\ pc = "loop"
    /\ samples # << >>
    /\ bit_depth \in ValidDepths
    /\ out' = out \o EncodeFrame(bit_depth, Head(samples))
    /\ samples' = Tail(samples)
    /\ UNCHANGED << args, pc, byte_depth, clone, counted,
                    sample_count, expected_data_length >>

\* line 148: the `_ => unreachable!(...)` arm
UnreachableDepth ==
    /\ pc = "loop"
    /\ samples # << >>
    /\ bit_depth \notin ValidDepths
    /\ samples' = Tail(samples)
    /\ pc' = "panicked"
    /\ UNCHANGED << args, byte_depth, clone, counted,
                    sample_count, expected_data_length, out >>

\* lines 151-157: the final length check and the return of `out`
Finish ==
    /\ pc = "loop"
    /\ samples = << >>
    /\ pc' = IF debug /\ U32Add(expected_data_length, 44).v # U32(Len(out))
             THEN "panicked" ELSE "returned"
    /\ UNCHANGED << args, byte_depth, clone, samples, counted,
                    sample_count, expected_data_length, out >>

Next ==
    \/ AssertDepthFail
    \/ Begin
    \/ CountStep
    \/ CountDone
    \/ RiffHeader
    \/ FmtChunk
    \/ FmtOverflow
    \/ DataHeader
    \/ EncodeStep
    \/ UnreachableDepth
    \/ Finish

Spec == Init /\ [][Next]_vars

\* ------------------------------------------------------------ observers
Returned == pc = "returned"

\* bytes first..last of the buffer, offsets counted from 0
Bytes(first, last) == SubSeq(out, first + 1, last + 1)

\* little-endian fields of the buffer, read back
FieldU16(off) == out[off + 1] + 256 * out[off + 2]

FieldU32(off) == [lo |-> FieldU16(off), hi |-> FieldU16(off + 2)]

\* n as a 32-bit field value, for n below 2^31
AsU32(n) == [lo |-> n % 65536, hi |-> n \div 65536]

\* the unbounded product a * k of a 32-bit value, as three 16-bit limbs
WideProduct(a, k) ==
    LET plo == a.lo * k
        phi == a.hi * k + (plo \div 65536)
    IN  [lo |-> plo % 65536, hi |-> phi % 65536, top |-> phi \div 65536]

\* the bytes of channel c (0 = left, 1 = right) of pair i (from 1)
ChannelBytes(i, c) ==
    LET bd == bit_depth \div 8
        at == 44 + (2 * (i - 1) + c) * bd
    IN  Bytes(at, at + bd - 1)

Slots == { << i, c >> : i \in 1 .. Len(input), c \in {0, 1} }

Amplitude(slot) == input[slot[1]][slot[2] + 1]

SlotBytes(slot) == ChannelBytes(slot[1], slot[2])

InRange(m) == -Den <= m /\ m <= Den

DecodeS16(b) ==
    LET u == b[1] + 256 * b[2]
    IN  IF u >= 32768 THEN u - 65536 ELSE u

\* a 3-byte group sign-extended to 32 bits
DecodeS24(b) ==
    LET u == b[1] + 256 * b[2] + 65536 * b[3]
    IN  IF u >= 8388608 THEN u - 16777216 ELSE u

\* floor and ceiling of (m / Den) * S
FloorScaled(m, S) == m * (S \div Den) + ((m * (S % Den)) \div Den)

CeilScaled(m, S) == -FloorScaled(-m, S)

\* d lies within one quantization step of (m / Den) * S
WithinOneStep(d, m, S) == CeilScaled(m, S) - 1 <= d /\ d <= FloorScaled(m, S) + 1

Zeros(n) == [k \in 1 .. n |-> 0]

\* --------------------------------------------------------------- claims

\* C1: for every bit depth in {8, 16, 24, 32}, every sample rate and every
\* sample sequence, the returned buffer has length
\* 44 + sample_count * 2 * (bit_depth / 8).
C1_OutputLength ==
    (Returned /\ bit_depth \in ValidDepths)
        => Len(out) = 44 + Len(input) * 2 * (bit_depth \div 8)

C1_Witness ==
    Returned /\ bit_depth = 24 /\ ~debug /\ Len(input) = 2

\* C2: in the returned buffer ChunkSize (bytes 4-7) is 36 + data_length and
\* bytes 40-43 hold data_length = sample_count * 2 * (bit_depth / 8); hence
\* ChunkSize = length - 8 and the data size = length - 44, and the empty
\* sequence gives ChunkSize 36 and data_length 0.
C2_SizeFields ==
    (Returned /\ bit_depth \in ValidDepths) =>
        LET data_length == Len(input) * 2 * (bit_depth \div 8)
        IN  /\ FieldU32(4) = AsU32(36 + data_length)
            /\ FieldU32(40) = AsU32(data_length)
            /\ FieldU32(4) = AsU32(Len(out) - 8)
            /\ FieldU32(40) = AsU32(Len(out) - 44)
            /\ input = << >> => /\ Bytes(4, 7) = << 36, 0, 0, 0 >>
                                /\ Bytes(40, 43) = << 0, 0, 0, 0 >>

C2_Witness ==
    Returned /\ bit_depth = 32 /\ Len(input) = 1 /\ FieldU32(40) = AsU32(8)

\* C3 as stated: for every 32-bit sample_rate and every valid bit depth the
\* byte-rate field equals sample_rate * 2 * (bit_depth / 8), block align
\* equals 2 * (bit_depth / 8), and the sample-rate and bits-per-sample
\* fields repeat the arguments.
C3_Original ==
    (Returned /\ bit_depth \in ValidDepths) =>
        LET product == WideProduct(sample_rate, 2 * (bit_depth \div 8))
        IN  /\ product.top = 0
            /\ FieldU32(28) = [lo |-> product.lo, hi |-> product.hi]
            /\ FieldU16(32) = 2 * (bit_depth \div 8)
            /\ FieldU32(24) = sample_rate
            /\ FieldU16(34) = bit_depth

\* C3 amended: in every returned buffer the byte-rate field equals
\* sample_rate * 2 * (bit_depth / 8) reduced modulo 2^32; the other three
\* fields are as stated.
C3_ByteRateMod ==
    (Returned /\ bit_depth \in ValidDepths) =>
        LET product == WideProduct(sample_rate, 2 * (bit_depth \div 8))
        IN  /\ FieldU32(28) = [lo |-> product.lo, hi |-> product.hi]
            /\ FieldU16(32) = 2 * (bit_depth \div 8)
            /\ FieldU32(24) = sample_rate
            /\ FieldU16(34) = bit_depth

C3_Witness ==
    /\ Returned /\ bit_depth = 16
    /\ WideProduct(sample_rate, 4).top > 0
    /\ FieldU32(28) = [lo |-> 65532, hi |-> 65535]

\* C4: whenever a buffer is returned, bytes 0-3 are "RIFF", 8-11 "WAVE",
\* 12-15 "fmt ", 36-39 "data", Subchunk1Size is 16, the format tag is 1 and
\* the channel count is 2.
C4_Magic ==
    Returned =>
        /\ Bytes(0, 3) = << 82, 73, 70, 70 >>
        /\ Bytes(8, 11) = << 87, 65, 86, 69 >>
        /\ Bytes(12, 15) = << 102, 109, 116, 32 >>
        /\ Bytes(36, 39) = << 100, 97, 116, 97 >>
        /\ Bytes(16, 19) = << 16, 0, 0, 0 >>
        /\ Bytes(20, 21) = << 1, 0 >>
        /\ Bytes(22, 23) = << 2, 0 >>

C4_Witness ==
    Returned /\ bit_depth = 8 /\ sample_rate = AsU32(44100) /\ Len(input) = 2

\* C5: a bit depth outside {8, 16, 24, 32} makes the encoder fail before any
\* encoding work: no header byte, no data byte, and no buffer is returned.
C5_FailFast ==
    bit_depth \notin ValidDepths => (out = << >> /\ ~Returned)

\* C6 as stated: at 24 bits the 3-byte group of any sample, sign-extended,
\* is within one quantization step of the amplitude scaled by 8388607.
C6_Original ==
    (Returned /\ bit_depth = 24) =>
        \A slot \in Slots :
            WithinOneStep(DecodeS24(SlotBytes(slot)), Amplitude(slot), 8388607)

\* C6 amended: the same, for every sample whose amplitude lies in the
\* nominal range [-1.0, 1.0].
C6_InRange24 ==
    (Returned /\ bit_depth = 24) =>
        \A slot \in Slots :
            InRange(Amplitude(slot)) =>
                WithinOneStep(DecodeS24(SlotBytes(slot)), Amplitude(slot), 8388607)

C6_Witness ==
    /\ Returned /\ bit_depth = 24
    /\ input = << << -Den, Den >> >>
    /\ Bytes(44, 49) = << 1, 0, 128, 255, 255, 127 >>

\* C7: at 16 bits every amplitude x in [-1.0, 1.0] is emitted as x * 32767
\* truncated toward zero; (1.0, -1.0) gives FF 7F 01 80, and -32768 is never
\* emitted for an in-range amplitude.
C7_Truncate16 ==
    (Returned /\ bit_depth = 16) =>
        \A slot \in Slots :
            LET m == Amplitude(slot)
                v == DecodeS16(SlotBytes(slot))
            IN  /\ InRange(m) => (v = TruncDiv(m * 32767, Den) /\ v # -32768)
                /\ input[slot[1]] = << Den, -Den >>
                       => ChannelBytes(slot[1], 0) \o ChannelBytes(slot[1], 1)
                              = << 255, 127, 1, 128 >>

C7_Witness ==
    /\ Returned /\ bit_depth = 16
    /\ \E i \in 1 .. Len(input) :
          /\ input[i] = << 1 - Den, 2 - Den >>
          /\ DecodeS16(ChannelBytes(i, 0)) = TruncDiv((1 - Den) * 32767, Den)
          /\ (1 - Den) * 32767 % Den # 0

\* C8: the silent pair (0.0, 0.0) encodes to all-zero bytes at 16, 24 and
\* 32 bits (4, 6 and 8 bytes) and to 80 80 at 8 bits.
C8_Silence ==
    (Returned /\ input = << << 0, 0 >> >> /\ bit_depth \in ValidDepths) =>
        /\ bit_depth = 8 => Bytes(44, Len(out) - 1) = << 128, 128 >>
        /\ bit_depth = 16 => Bytes(44, Len(out) - 1) = Zeros(4)
        /\ bit_depth = 24 => Bytes(44, Len(out) - 1) = Zeros(6)
        /\ bit_depth = 32 => Bytes(44, Len(out) - 1) = Zeros(8)

C8_Witness ==
    Returned /\ input = << << 0, 0 >> >> /\ bit_depth = 8 /\ Len(out) = 46

\* C9: the sequence is traversed twice without being altered, first to count
\* and then to encode; the number of pairs encoded is the count in the
\* header, and pair i occupies bytes 44 + 2*i*bd onward, left channel before
\* right channel, in input order after the 44-byte header.
C9_TwoPassLayout ==
    /\ pc \in {"count", "riff", "fmt", "data"} => samples = input
    /\ pc \in {"riff", "fmt", "data", "loop", "returned"}
           => sample_count = AsU32(Len(input))
    /\ (pc = "loop" /\ bit_depth \in ValidDepths) =>
           Len(out) = 44 + (Len(input) - Len(samples)) * 2 * (bit_depth \div 8)
    /\ (Returned /\ bit_depth \in ValidDepths) =>
           /\ FieldU32(40) = AsU32(Len(input) * 2 * (bit_depth \div 8))
           /\ \A i \in 1 .. Len(input) :
                 /\ ChannelBytes(i, 0) = EncodeChannel(bit_depth, input[i][1])
                 /\ ChannelBytes(i, 1) = EncodeChannel(bit_depth, input[i][2])

C9_Witness ==
    /\ Returned /\ bit_depth = 16
    /\ input = << << 1, -1 >>, << Den, -Den >> >>
    /\ Bytes(44, 51) = << 63, 0, 193, 255, 255, 127, 1, 128 >>

\* C10: at 8 bits the emitted byte is a non-decreasing function of the
\* amplitude over [-1.0, 1.0]; -1.0 gives 0x00 and +1.0 gives 0xFF.
C10_Monotone8 ==
    (Returned /\ bit_depth = 8) =>
        \A s \in Slots :
            LET m == Amplitude(s)
            IN  InRange(m) =>
                    /\ m = -Den => SlotBytes(s) = << 0 >>
                    /\ m = Den => SlotBytes(s) = << 255 >>
                    /\ \A t \in Slots :
                          (InRange(Amplitude(t)) /\ m <= Amplitude(t))
                              => SlotBytes(s)[1] <= SlotBytes(t)[1]

C10_Witness ==
    /\ Returned /\ bit_depth = 8
    /\ input = << << Den - 1, Den >> >>
    /\ Bytes(44, 45) = << 255, 255 >>

====
